---- MODULE Spec2Model ----
(***************************************************************************)
(* Model of run-lcb-evals.py: discovery of the LiveCodeBench input files   *)
(* of each model, one evaluator invocation per input file on a thread      *)
(* pool, and the completeness check over the expected output files.        *)
(* Paths and printed lines are strings; the file system is the set of      *)
(* paths of the regular files that exist.                                  *)
(***************************************************************************)
EXTENDS Integers, Sequences, FiniteSets, TLC

VARIABLES
    dataDir,                    \* Path("data/").is_dir()
    files,                      \* paths of the regular files that exist
    pc,                         \* position of the main thread
    model_to_lcb_input_files,   \* main: dict model -> list of input files
    model_evaluation_infos,     \* main: list of LcbModelEvaluationInfo
    future_to_lcb_input,        \* main: future (by submission index) -> input path
    future_state,               \* per future: PENDING, RUNNING or FINISHED
    future_exception,           \* per future: the exception set on it, or "None"
    returncode,                 \* per future: exit status of its evaluator (-1: none yet)
    invocations,                \* per future: number of subprocess.run calls made for it
    work_queue,                 \* executor: submitted work items not yet taken by a worker
    yielded,                    \* futures that as_completed has handed to the main loop
    checked,                    \* number of tasks the completeness check has inspected
    out,                        \* lines printed to stdout, in order
    wrote                       \* history: per future, its evaluator wrote its output file

vars == <<dataDir, files, pc, model_to_lcb_input_files, model_evaluation_infos,
          future_to_lcb_input, future_state, future_exception, returncode,
          invocations, work_queue, yielded, checked, out, wrote>>

(***************************************************************************)
(* Bounds of the model.                                                    *)
(***************************************************************************)
\* largest number of files present under data/ when the program starts
MaxFiles == 3
\* max_workers of the ThreadPoolExecutor (host dependent)
MaxWorkers == 2
\* largest number of pieces an input path of the path specification is made of
MaxPieces == 3

(***************************************************************************)
(* Program constants.                                                      *)
(***************************************************************************)
MODELS ==
    << "claude-3-7-sonnet-20250219", "codellama-70b", "Codestral-2501",
       "DeepSeek-R1", "DeepSeek-V3", "gpt-4.1-2025-04-14",
       "Llama-3.3-70B-Instruct", "qwen-2.5-coder" >>

LCB_OUTPUT_FILE_SUFFIX == "codegeneration_output_eval_all.json"

\* the glob pattern of _get_lcb_input_files_for_model, after the directory
InputFilePattern == "lcb-formatted.json"

(***************************************************************************)
(* String helpers (str.startswith, str.endswith, str.find, str.split).     *)
(***************************************************************************)
StartsWith(s, p) == Len(p) <= Len(s) /\ SubSeq(s, 1, Len(p)) = p

EndsWith(s, p) == Len(p) <= Len(s) /\ SubSeq(s, Len(s) - Len(p) + 1, Len(s)) = p

Contains(s, p) == \E i \in 1..(Len(s) - Len(p) + 1) : SubSeq(s, i, i + Len(p) - 1) = p

\* the last occurrence in place of the first (rfind, rsplit)
Find_Last(s, sep) ==
    LET hits == {i \in 1..(Len(s) - Len(sep) + 1) : SubSeq(s, i, i + Len(sep) - 1) = sep}
    IN  IF hits = {} THEN 0 ELSE CHOOSE i \in hits : \A j \in hits : i >= j

\* index of the first occurrence of sep in s, 0 when there is none
Find(s, sep) ==
    LET hits == {i \in 1..(Len(s) - Len(sep) + 1) : SubSeq(s, i, i + Len(sep) - 1) = sep}
    IN  IF hits = {} THEN 0 ELSE CHOOSE i \in hits : \A j \in hits : i <= j

\* s.split(sep): the parts of s between the occurrences of sep, left to right
RECURSIVE Split(_, _)
Split(s, sep) ==
    LET i == Find(s, sep)
    IN  IF i = 0 THEN <<s>>
        ELSE <<SubSeq(s, 1, i - 1)>> \o Split(SubSeq(s, i + Len(sep), Len(s)), sep)

(***************************************************************************)
(* Path resolver.                                                          *)
(***************************************************************************)
\* lcb_input_file.split(".") in place of split(".json")
_get_expected_lcb_output_file_SplitAtDot(lcb_input_file) ==
    Split(lcb_input_file, ".")[1] \o "_" \o LCB_OUTPUT_FILE_SUFFIX

_get_expected_lcb_output_file(lcb_input_file) ==
    LET lcb_input_file_without_extension == Split(lcb_input_file, ".json")[1]
    IN  lcb_input_file_without_extension \o "_" \o LCB_OUTPUT_FILE_SUFFIX

\* glob.glob(f"data/{model}/post-processed/*lcb-formatted.json") as a set:
\* the entries of the directory whose name ends with the pattern's literal
\* part; "*" does not match a leading dot nor a path separator
GlobInputFiles(model) ==
    LET dir == "data/" \o model \o "/post-processed/"
    IN  {p \in files :
            /\ StartsWith(p, dir)
            /\ LET name == SubSeq(p, Len(dir) + 1, Len(p))
               IN  /\ ~Contains(name, "/")
                   /\ ~StartsWith(name, ".")
                   /\ EndsWith(name, InputFilePattern)}

\* the orders in which a directory listing can return the elements of S
Listings(S) ==
    {s \in [1..Cardinality(S) -> S] : \A i, j \in 1..Cardinality(S) : s[i] = s[j] => i = j}

\* the elements of listing that are in S, in listing order
RECURSIVE Restrict(_, _)
Restrict(listing, S) ==
    IF listing = <<>> THEN <<>>
    ELSE IF Head(listing) \in S THEN <<Head(listing)>> \o Restrict(Tail(listing), S)
    ELSE Restrict(Tail(listing), S)

_get_lcb_input_files_for_model(model, listing) == Restrict(listing, GlobInputFiles(model))

(***************************************************************************)
(* The files that may be present under data/ at start.                     *)
(***************************************************************************)
CandidateFiles ==
    { "data/DeepSeek-R1/post-processed/lcb-formatted.json",
      "data/DeepSeek-R1/post-processed/lcb-formatted.json.lcb-formatted.json",
      "data/qwen-2.5-coder/post-processed/run1.lcb-formatted.json",
      "data/qwen-2.5-coder/post-processed/.lcb-formatted.json",
      "data/m/post-processed/run1.lcb-formatted.json" }

(***************************************************************************)
(* Printed lines.                                                          *)
(***************************************************************************)
cmd_to_run_lcb_for_input_file(lcb_input_file) ==
    "python -m lcb_runner.runner.custom_evaluator --custom_output_file " \o lcb_input_file

FinishedLine(lcb_input_file) ==
    "Finished running: " \o cmd_to_run_lcb_for_input_file(lcb_input_file)

\* str(e) of the exceptions subprocess.run raises
ExceptionText(e, lcb_input_file) ==
    CASE e = "CalledProcessError" ->
            "Command '" \o cmd_to_run_lcb_for_input_file(lcb_input_file)
                \o "' returned non-zero exit status 1."
      [] e = "UnicodeDecodeError" ->
            "'utf-8' codec can't decode byte 0xff in position 0: invalid start byte"
      [] OTHER -> "[Errno 11] Resource temporarily unavailable"

RaisedLine(lcb_input, e) ==
    "LiveCodeBench run for " \o lcb_input \o " raised: " \o ExceptionText(e, lcb_input)

MissingLine(expected_lcb_output_file_path) ==
    "Missing LiveCodeBench output file: " \o expected_lcb_output_file_path

RerunLine(lcb_input_file_path) ==
    "Re-run '" \o cmd_to_run_lcb_for_input_file(lcb_input_file_path) \o "'"

(***************************************************************************)
(* Initial states: the data root is present or not; when it is, at most    *)
(* MaxFiles of the candidate files exist.                                  *)
(***************************************************************************)
ModelSet == {MODELS[i] : i \in 1..Len(MODELS)}

Futures == 1..Len(future_to_lcb_input)

Init ==
    /\ dataDir \in BOOLEAN
    /\ files \in {F \in SUBSET CandidateFiles :
                    /\ Cardinality(F) <= MaxFiles
                    /\ ~dataDir => F = {}}
    /\ pc = "start"
    /\ model_to_lcb_input_files = [m \in ModelSet |-> <<>>]
    /\ model_evaluation_infos = <<>>
    /\ future_to_lcb_input = <<>>
    /\ future_state = <<>>
    /\ future_exception = <<>>
    /\ returncode = <<>>
    /\ invocations = <<>>
    /\ work_queue = <<>>
    /\ yielded = {}
    /\ checked = 0
    /\ out = <<>>
    /\ wrote = <<>>

(***************************************************************************)
(* main, lines 70-87: precondition, discovery, task list.                  *)
(***************************************************************************)
\* the assertion left out: main goes on whether or not data/ exists
AssertDataDir_NoAssert ==
    /\ pc = "start"
    /\ pc' = "discover"
    /\ UNCHANGED <<dataDir, files, model_to_lcb_input_files, model_evaluation_infos,
                   future_to_lcb_input, future_state, future_exception, returncode,
                   invocations, work_queue, yielded, checked, out, wrote>>

\* assert Path("data/").is_dir()
AssertDataDir ==
    /\ pc = "start"
    /\ pc' = IF dataDir THEN "discover" ELSE "aborted"
    /\ UNCHANGED <<dataDir, files, model_to_lcb_input_files, model_evaluation_infos,
                   future_to_lcb_input, future_state, future_exception, returncode,
                   invocations, work_queue, yielded, checked, out, wrote>>

\* model_to_lcb_input_files = {model: _get_lcb_input_files_for_model(model) ...}
DiscoverInputFiles ==
    /\ pc = "discover"
    /\ \E listing \in Listings(files) :
          model_to_lcb_input_files' =
              [m \in ModelSet |-> _get_lcb_input_files_for_model(m, listing)]
    /\ pc' = "build"
    /\ UNCHANGED <<dataDir, files, model_evaluation_infos,
                   future_to_lcb_input, future_state, future_exception, returncode,
                   invocations, work_queue, yielded, checked, out, wrote>>

LcbModelEvaluationInfo(m, f) ==
    [model |-> m,
     lcb_input_file_path |-> f,
     expected_lcb_output_file_path |-> _get_expected_lcb_output_file(f)]

\* the inner loop left out: only the first input file of a model gets an info
InfosOfModel_FirstFileOnly(m, lcb_input_files) ==
    IF lcb_input_files = <<>> THEN <<>>
    ELSE <<LcbModelEvaluationInfo(m, lcb_input_files[1])>>

\* the infos appended for one model: one per input file, in list order
InfosOfModel(m, lcb_input_files) ==
    [j \in 1..Len(lcb_input_files) |-> LcbModelEvaluationInfo(m, lcb_input_files[j])]

\* the infos appended for the first k models of the dict (insertion order)
RECURSIVE BuildInfos(_, _)
BuildInfos(dict, k) ==
    IF k = 0 THEN <<>>
    ELSE BuildInfos(dict, k - 1) \o InfosOfModel(MODELS[k], dict[MODELS[k]])

BuildEvaluationInfos ==
    /\ pc = "build"
    /\ model_evaluation_infos' = BuildInfos(model_to_lcb_input_files, Len(MODELS))
    /\ pc' = "submit"
    /\ UNCHANGED <<dataDir, files, model_to_lcb_input_files,
                   future_to_lcb_input, future_state, future_exception, returncode,
                   invocations, work_queue, yielded, checked, out, wrote>>

(***************************************************************************)
(* main, lines 89-95: one future per task, in task-list order.             *)
(***************************************************************************)
\* the tasks submitted from the end of the list to its start
Submit_Reversed ==
    /\ pc = "submit"
    /\ Len(future_to_lcb_input) < Len(model_evaluation_infos)
    /\ LET k == Len(future_to_lcb_input) + 1
           lcb_evaluation_info ==
               model_evaluation_infos[Len(model_evaluation_infos) - Len(future_to_lcb_input)]
       IN  /\ future_to_lcb_input' =
                  Append(future_to_lcb_input, lcb_evaluation_info.lcb_input_file_path)
           /\ future_state' = Append(future_state, "PENDING")
           /\ future_exception' = Append(future_exception, "None")
           /\ returncode' = Append(returncode, -1)
           /\ invocations' = Append(invocations, 0)
           /\ wrote' = Append(wrote, FALSE)
           /\ work_queue' = Append(work_queue, k)
    /\ UNCHANGED <<dataDir, files, pc, model_to_lcb_input_files, model_evaluation_infos,
                   yielded, checked, out>>

Submit ==
    /\ pc = "submit"
    /\ Len(future_to_lcb_input) < Len(model_evaluation_infos)
    /\ LET k == Len(future_to_lcb_input) + 1
           lcb_evaluation_info == model_evaluation_infos[k]
       IN  /\ future_to_lcb_input' =
                  Append(future_to_lcb_input, lcb_evaluation_info.lcb_input_file_path)
           /\ future_state' = Append(future_state, "PENDING")
           /\ future_exception' = Append(future_exception, "None")
           /\ returncode' = Append(returncode, -1)
           /\ invocations' = Append(invocations, 0)
           /\ wrote' = Append(wrote, FALSE)
           /\ work_queue' = Append(work_queue, k)
    /\ UNCHANGED <<dataDir, files, pc, model_to_lcb_input_files, model_evaluation_infos,
                   yielded, checked, out>>

\* the completeness check called right after the submissions
SubmitDone_ThenCheck ==
    /\ pc = "submit"
    /\ Len(future_to_lcb_input) = Len(model_evaluation_infos)
    /\ pc' = "check"
    /\ UNCHANGED <<dataDir, files, model_to_lcb_input_files, model_evaluation_infos,
                   future_to_lcb_input, future_state, future_exception, returncode,
                   invocations, work_queue, yielded, checked, out, wrote>>

\* the dict comprehension is complete: the as_completed loop starts
SubmitDone ==
    /\ pc = "submit"
    /\ Len(future_to_lcb_input) = Len(model_evaluation_infos)
    /\ pc' = "collect"
    /\ UNCHANGED <<dataDir, files, model_to_lcb_input_files, model_evaluation_infos,
                   future_to_lcb_input, future_state, future_exception, returncode,
                   invocations, work_queue, yielded, checked, out, wrote>>

(***************************************************************************)
(* Worker threads: _run_lcb_for_input_file, lines 107-122.                 *)
(***************************************************************************)
Running == {k \in Futures : future_state[k] = "RUNNING"}

\* a launch failure that is swallowed in the worker: the future is never completed
WorkerStart_LaunchFailureLost ==
    /\ work_queue # <<>>
    /\ Cardinality(Running) < MaxWorkers
    /\ LET k == Head(work_queue)
       IN  /\ work_queue' = Tail(work_queue)
           /\ invocations' = [invocations EXCEPT ![k] = @ + 1]
           /\ \E launched \in BOOLEAN :
                 IF launched
                 THEN future_state' = [future_state EXCEPT ![k] = "RUNNING"]
                 ELSE UNCHANGED future_state
    /\ UNCHANGED <<dataDir, files, pc, model_to_lcb_input_files, model_evaluation_infos,
                   future_to_lcb_input, future_exception, returncode, yielded, checked, out, wrote>>

\* one thread per work item: no limit on the number of workers
WorkerStart_Unbounded ==
    /\ work_queue # <<>>
    /\ LET k == Head(work_queue)
       IN  /\ work_queue' = Tail(work_queue)
           /\ invocations' = [invocations EXCEPT ![k] = @ + 1]
           /\ \E launched \in BOOLEAN :
                 IF launched
                 THEN /\ future_state' = [future_state EXCEPT ![k] = "RUNNING"]
                      /\ UNCHANGED future_exception
                 ELSE /\ future_state' = [future_state EXCEPT ![k] = "FINISHED"]
                      /\ future_exception' = [future_exception EXCEPT ![k] = "OSError"]
    /\ UNCHANGED <<dataDir, files, pc, model_to_lcb_input_files, model_evaluation_infos,
                   future_to_lcb_input, returncode, yielded, checked, out, wrote>>

\* a free worker takes the oldest work item and calls subprocess.run, which
\* launches the evaluator or raises OSError
WorkerStart ==
    /\ work_queue # <<>>
    /\ Cardinality(Running) < MaxWorkers
    /\ LET k == Head(work_queue)
       IN  /\ work_queue' = Tail(work_queue)
           /\ invocations' = [invocations EXCEPT ![k] = @ + 1]
           /\ \E launched \in BOOLEAN :
                 IF launched
                 THEN /\ future_state' = [future_state EXCEPT ![k] = "RUNNING"]
                      /\ UNCHANGED future_exception
                 ELSE /\ future_state' = [future_state EXCEPT ![k] = "FINISHED"]
                      /\ future_exception' = [future_exception EXCEPT ![k] = "OSError"]
    /\ UNCHANGED <<dataDir, files, pc, model_to_lcb_input_files, model_evaluation_infos,
                   future_to_lcb_input, returncode, yielded, checked, out, wrote>>

\* a running evaluator writes the output file of its input file
EvaluatorWrite ==
    /\ \E k \in Running :
          /\ ~wrote[k]
          /\ files' = files \cup {model_evaluation_infos[k].expected_lcb_output_file_path}
          /\ wrote' = [wrote EXCEPT ![k] = TRUE]
    /\ UNCHANGED <<dataDir, pc, model_to_lcb_input_files, model_evaluation_infos,
                   future_to_lcb_input, future_state, future_exception, returncode,
                   invocations, work_queue, yielded, checked, out>>

\* what subprocess.run(check=True, capture_output=True, encoding="utf-8")
\* raises once the evaluator has exited: decoding of the captured output
\* comes first, then the check of the exit status
RunException(rc, decodable) ==
    IF ~decodable THEN "UnicodeDecodeError"
    ELSE IF rc # 0 THEN "CalledProcessError"
    ELSE "None"

\* a failed run is queued again once instead of completing the future
WorkerFinish_Retry ==
    /\ \E k \in Running : \E rc \in {0, 1}, decodable \in BOOLEAN :
          LET e == RunException(rc, decodable)
          IN  /\ returncode' = [returncode EXCEPT ![k] = rc]
              /\ IF e # "None" /\ invocations[k] < 2
                 THEN /\ future_state' = [future_state EXCEPT ![k] = "PENDING"]
                      /\ work_queue' = Append(work_queue, k)
                      /\ UNCHANGED <<future_exception, out>>
                 ELSE /\ future_exception' = [future_exception EXCEPT ![k] = e]
                      /\ future_state' = [future_state EXCEPT ![k] = "FINISHED"]
                      /\ out' = IF e = "None"
                                THEN Append(out, FinishedLine(future_to_lcb_input[k]))
                                ELSE out
                      /\ UNCHANGED work_queue
    /\ UNCHANGED <<dataDir, files, pc, model_to_lcb_input_files, model_evaluation_infos,
                   future_to_lcb_input, invocations, yielded, checked, wrote>>

\* the evaluator exits; the worker prints on success and completes the future
WorkerFinish ==
    /\ \E k \in Running : \E rc \in {0, 1}, decodable \in BOOLEAN :
          LET e == RunException(rc, decodable)
          IN  /\ returncode' = [returncode EXCEPT ![k] = rc]
              /\ future_exception' = [future_exception EXCEPT ![k] = e]
              /\ future_state' = [future_state EXCEPT ![k] = "FINISHED"]
              /\ out' = IF e = "None"
                        THEN Append(out, FinishedLine(future_to_lcb_input[k]))
                        ELSE out
    /\ UNCHANGED <<dataDir, files, pc, model_to_lcb_input_files, model_evaluation_infos,
                   future_to_lcb_input, invocations, work_queue, yielded, checked, wrote>>

(***************************************************************************)
(* main, lines 97-104: outcomes, join, completeness check.                 *)
(***************************************************************************)
\* future.result() outside any try: the exception of a task ends main
AsCompleted_Propagates ==
    /\ pc = "collect"
    /\ \E future \in Futures \ yielded :
          /\ future_state[future] = "FINISHED"
          /\ yielded' = yielded \cup {future}
          /\ pc' = IF future_exception[future] # "None" THEN "aborted" ELSE pc
    /\ UNCHANGED <<dataDir, files, model_to_lcb_input_files, model_evaluation_infos,
                   future_to_lcb_input, future_state, future_exception, returncode,
                   invocations, work_queue, checked, out, wrote>>

\* the message built from the loop variable of the submissions, which
\* holds the last task of the list
AsCompleted_LastInput ==
    /\ pc = "collect"
    /\ \E future \in Futures \ yielded :
          /\ future_state[future] = "FINISHED"
          /\ yielded' = yielded \cup {future}
          /\ LET lcb_input ==
                     model_evaluation_infos[Len(model_evaluation_infos)].lcb_input_file_path
                 e == future_exception[future]
             IN  out' = IF e # "None" THEN Append(out, RaisedLine(lcb_input, e)) ELSE out
    /\ UNCHANGED <<dataDir, files, pc, model_to_lcb_input_files, model_evaluation_infos,
                   future_to_lcb_input, future_state, future_exception, returncode,
                   invocations, work_queue, checked, wrote>>

\* as_completed yields a finished future; future.result() re-raises
AsCompleted ==
    /\ pc = "collect"
    /\ \E future \in Futures \ yielded :
          /\ future_state[future] = "FINISHED"
          /\ yielded' = yielded \cup {future}
          /\ LET lcb_input == future_to_lcb_input[future]
                 e == future_exception[future]
             IN  out' = IF e # "None" THEN Append(out, RaisedLine(lcb_input, e)) ELSE out
    /\ UNCHANGED <<dataDir, files, pc, model_to_lcb_input_files, model_evaluation_infos,
                   future_to_lcb_input, future_state, future_exception, returncode,
                   invocations, work_queue, checked, wrote>>

\* main leaves the loop at the first outcome and does not join the workers
AsCompletedDone_FirstOutcome ==
    /\ pc = "collect"
    /\ yielded # {} \/ Futures = {}
    /\ pc' = "check"
    /\ UNCHANGED <<dataDir, files, model_to_lcb_input_files, model_evaluation_infos,
                   future_to_lcb_input, future_state, future_exception, returncode,
                   invocations, work_queue, yielded, checked, out, wrote>>

\* as_completed is exhausted once it has yielded every future
AsCompletedDone ==
    /\ pc = "collect"
    /\ yielded = Futures
    /\ pc' = "shutdown"
    /\ UNCHANGED <<dataDir, files, model_to_lcb_input_files, model_evaluation_infos,
                   future_to_lcb_input, future_state, future_exception, returncode,
                   invocations, work_queue, yielded, checked, out, wrote>>

\* end of the with block: executor.shutdown(wait=True) joins the workers
ExecutorShutdown ==
    /\ pc = "shutdown"
    /\ work_queue = <<>>
    /\ Running = {}
    /\ pc' = "check"
    /\ UNCHANGED <<dataDir, files, model_to_lcb_input_files, model_evaluation_infos,
                   future_to_lcb_input, future_state, future_exception, returncode,
                   invocations, work_queue, yielded, checked, out, wrote>>

\* Path(p).is_file()
is_file(p) == p \in files

\* the two fields taken in the wrong order when the info is unpacked
MissingDiagnostics_InputPath(info) ==
    <<MissingLine(info.lcb_input_file_path), RerunLine(info.expected_lcb_output_file_path)>>

\* the two lines printed for a task whose expected output file is absent
MissingDiagnostics(info) ==
    <<MissingLine(info.expected_lcb_output_file_path), RerunLine(info.lcb_input_file_path)>>

\* opening the expected output file in place of testing for it
CheckStep_RaisesOnMissing ==
    /\ pc = "check"
    /\ checked < Len(model_evaluation_infos)
    /\ LET info == model_evaluation_infos[checked + 1]
       IN  pc' = IF ~is_file(info.expected_lcb_output_file_path) THEN "aborted" ELSE pc
    /\ checked' = checked + 1
    /\ UNCHANGED <<dataDir, files, model_to_lcb_input_files, model_evaluation_infos,
                   future_to_lcb_input, future_state, future_exception, returncode,
                   invocations, work_queue, yielded, out, wrote>>

\* the check takes each task off the list as it inspects it
CheckStep_PopsTask ==
    /\ pc = "check"
    /\ checked < Len(model_evaluation_infos)
    /\ LET info == Head(model_evaluation_infos)
       IN  out' = IF ~is_file(info.expected_lcb_output_file_path)
                  THEN out \o MissingDiagnostics(info)
                  ELSE out
    /\ model_evaluation_infos' = Tail(model_evaluation_infos)
    /\ checked' = checked + 1
    /\ UNCHANGED <<dataDir, files, pc, model_to_lcb_input_files,
                   future_to_lcb_input, future_state, future_exception, returncode,
                   invocations, work_queue, yielded, wrote>>

\* the check also reports the tasks whose run raised
CheckStep_ReportsFailedRuns ==
    /\ pc = "check"
    /\ checked < Len(model_evaluation_infos)
    /\ LET info == model_evaluation_infos[checked + 1]
       IN  out' = IF \/ ~is_file(info.expected_lcb_output_file_path)
                     \/ future_exception[checked + 1] # "None"
                  THEN out \o MissingDiagnostics(info)
                  ELSE out
    /\ checked' = checked + 1
    /\ UNCHANGED <<dataDir, files, pc, model_to_lcb_input_files, model_evaluation_infos,
                   future_to_lcb_input, future_state, future_exception, returncode,
                   invocations, work_queue, yielded, wrote>>

\* one iteration of the loop of _check_lcb_evaluation_completeness
CheckStep ==
    /\ pc = "check"
    /\ checked < Len(model_evaluation_infos)
    /\ LET info == model_evaluation_infos[checked + 1]
       IN  out' = IF ~is_file(info.expected_lcb_output_file_path)
                  THEN out \o MissingDiagnostics(info)
                  ELSE out
    /\ checked' = checked + 1
    /\ UNCHANGED <<dataDir, files, pc, model_to_lcb_input_files, model_evaluation_infos,
                   future_to_lcb_input, future_state, future_exception, returncode,
                   invocations, work_queue, yielded, wrote>>

\* the loop is over: _check_lcb_evaluation_completeness and main return
CheckDone ==
    /\ pc = "check"
    /\ checked = Len(model_evaluation_infos)
    /\ pc' = "done"
    /\ UNCHANGED <<dataDir, files, model_to_lcb_input_files, model_evaluation_infos,
                   future_to_lcb_input, future_state, future_exception, returncode,
                   invocations, work_queue, yielded, checked, out, wrote>>

Next ==
    \/ AssertDataDir
    \/ DiscoverInputFiles
    \/ BuildEvaluationInfos
    \/ Submit
    \/ SubmitDone
    \/ WorkerStart
    \/ EvaluatorWrite
    \/ WorkerFinish
    \/ AsCompleted
    \/ AsCompletedDone
    \/ ExecutorShutdown
    \/ CheckStep
    \/ CheckDone

Spec == Init /\ [][Next]_vars

\* the steps of the main thread
MainStep ==
    \/ AssertDataDir
    \/ DiscoverInputFiles
    \/ BuildEvaluationInfos
    \/ Submit
    \/ SubmitDone
    \/ AsCompleted
    \/ AsCompletedDone
    \/ ExecutorShutdown
    \/ CheckStep
    \/ CheckDone

\* the main thread and the workers are scheduled, and every evaluator that
\* was launched eventually exits
FairSpec ==
    /\ Spec
    /\ WF_vars(MainStep)
    /\ WF_vars(WorkerStart)
    /\ WF_vars(WorkerFinish)

(***************************************************************************)
(* Path specification: the construction of one LcbModelEvaluationInfo      *)
(* (lines 79-87) for an arbitrary input path, which is the only file.      *)
(***************************************************************************)
PathPieces == {"run1", ".", ".json", "lcb-formatted", "/"}

RECURSIVE Concat(_)
Concat(ps) == IF ps = <<>> THEN "" ELSE Head(ps) \o Concat(Tail(ps))

PathInputs ==
    CandidateFiles
        \cup {"data/m/post-processed/run1.lcb-formatted.json"}
        \cup {Concat(ps) : ps \in UNION {[1..n -> PathPieces] : n \in 0..MaxPieces}}

PathInit ==
    /\ dataDir = TRUE
    /\ files \in {{p} : p \in PathInputs}
    /\ pc = "derive"
    /\ model_to_lcb_input_files = [m \in ModelSet |-> <<>>]
    /\ model_evaluation_infos = <<>>
    /\ future_to_lcb_input = <<>>
    /\ future_state = <<>>
    /\ future_exception = <<>>
    /\ returncode = <<>>
    /\ invocations = <<>>
    /\ work_queue = <<>>
    /\ yielded = {}
    /\ checked = 0
    /\ out = <<>>
    /\ wrote = <<>>

PathDerive ==
    /\ pc = "derive"
    /\ \E lcb_input_file \in files :
          model_evaluation_infos' = <<LcbModelEvaluationInfo("m", lcb_input_file)>>
    /\ pc' = "derived"
    /\ UNCHANGED <<dataDir, files, model_to_lcb_input_files,
                   future_to_lcb_input, future_state, future_exception, returncode,
                   invocations, work_queue, yielded, checked, out, wrote>>

PathNext == PathDerive

PathSpec == PathInit /\ [][PathNext]_vars

\* the path specification has derived the expected output path of p
Derived(p) ==
    /\ pc = "derived"
    /\ model_evaluation_infos[1].lcb_input_file_path = p

(***************************************************************************)
(* C3                                                                      *)
(***************************************************************************)
C3_Input == "data/m/post-processed/run1.lcb-formatted.json"

\* C3 as stated: the expected output path derived from
\* data/m/post-processed/run1.lcb-formatted.json is
\* data/m/post-processed/run1_codegeneration_output_eval_all.json
C3_Original ==
    Derived(C3_Input) =>
        model_evaluation_infos[1].expected_lcb_output_file_path
            = "data/m/post-processed/run1_codegeneration_output_eval_all.json"

\* C3 amended: the expected output path derived from
\* data/m/post-processed/run1.lcb-formatted.json keeps everything before
\* ".json": it is
\* data/m/post-processed/run1.lcb-formatted_codegeneration_output_eval_all.json
C3_DerivedPath ==
    Derived(C3_Input) =>
        model_evaluation_infos[1].expected_lcb_output_file_path
            = "data/m/post-processed/run1.lcb-formatted_codegeneration_output_eval_all.json"

C3_Witness ==
    /\ Derived(C3_Input)
    /\ EndsWith(model_evaluation_infos[1].expected_lcb_output_file_path,
                "_" \o LCB_OUTPUT_FILE_SUFFIX)

(***************************************************************************)
(* State predicates shared by the properties of the run.                   *)
(***************************************************************************)
Tasks == 1..Len(model_evaluation_infos)

Submitted(k) == k \in Futures

HasOutcome(k) == Submitted(k) /\ future_state[k] = "FINISHED"

Failed(k) == HasOutcome(k) /\ future_exception[k] # "None"

Succeeded(k) == HasOutcome(k) /\ future_exception[k] = "None"

\* main has returned or has been ended by an exception
MainEnded == pc \in {"done", "aborted"}

(***************************************************************************)
(* C1                                                                      *)
(***************************************************************************)
\* C1: whenever the completeness check is running or has inspected a task,
\* every task has been submitted and has reached its outcome: none is
\* unsubmitted, pending or running.
C1_CheckAfterAllOutcomes ==
    (pc \in {"check", "done"} \/ checked > 0) =>
        /\ work_queue = <<>>
        /\ \A k \in Tasks : HasOutcome(k)

\* the check has inspected a task of a run of several tasks, one of which failed
C1_Witness ==
    /\ pc = "check"
    /\ checked >= 1
    /\ Len(model_evaluation_infos) >= 2
    /\ \E k \in Tasks : Failed(k)
    /\ \E k \in Tasks : Succeeded(k)

(***************************************************************************)
(* C2                                                                      *)
(***************************************************************************)
\* C2: when main has ended on a present data root, every task has been
\* submitted and invoked and has its own outcome, and every task has been
\* checked, whichever tasks failed.
C2_FailureDoesNotStopOthers ==
    (dataDir /\ MainEnded) =>
        /\ \A k \in Tasks : HasOutcome(k) /\ invocations[k] >= 1
        /\ checked = Len(model_evaluation_infos)

\* a finished run in which the first task to be submitted failed, a later
\* one succeeded, and all were checked
C2_Witness ==
    /\ pc = "done"
    /\ Len(model_evaluation_infos) >= 2
    /\ Failed(1)
    /\ \E k \in Tasks : k > 1 /\ Succeeded(k) /\ returncode[k] = 0
    /\ checked = Len(model_evaluation_infos)

(***************************************************************************)
(* C4                                                                      *)
(***************************************************************************)
\* C4: when data/ is not a directory, main never gets past the assertion:
\* nothing is discovered, no task is built or submitted, no evaluator is
\* invoked, and the completeness check never runs.
C4_AbortBeforeDispatch ==
    ~dataDir =>
        /\ pc \in {"start", "aborted"}
        /\ model_evaluation_infos = <<>>
        /\ future_to_lcb_input = <<>>
        /\ invocations = <<>>
        /\ work_queue = <<>>
        /\ checked = 0
        /\ out = <<>>

C4_Witness == ~dataDir /\ pc = "aborted"

(***************************************************************************)
(* C5                                                                      *)
(***************************************************************************)
\* C5: each step of the completeness check inspects one task; when the
\* task's expected output file exists the step prints nothing, and when it
\* is absent the step prints exactly the line naming that expected output
\* path followed by the re-run line naming the task's input path.
C5_CheckDiagnostics ==
    [][ (checked' # checked) =>
          LET info == model_evaluation_infos[checked']
          IN  /\ checked' = checked + 1
              /\ IF info.expected_lcb_output_file_path \in files
                 THEN out' = out
                 ELSE out' = out \o
                        << "Missing LiveCodeBench output file: "
                               \o info.expected_lcb_output_file_path,
                           "Re-run 'python -m lcb_runner.runner.custom_evaluator --custom_output_file "
                               \o info.lcb_input_file_path \o "'" >> ]_vars

\* the check has inspected a task whose file exists and one whose file is
\* absent, and the last two lines printed are the diagnostics of the latter
C5_Witness ==
    /\ checked >= 2
    /\ model_evaluation_infos[checked - 1].expected_lcb_output_file_path \in files
    /\ model_evaluation_infos[checked].expected_lcb_output_file_path \notin files
    /\ Len(out) >= 2
    /\ out[Len(out) - 1] =
          MissingLine(model_evaluation_infos[checked].expected_lcb_output_file_path)

(***************************************************************************)
(* C6                                                                      *)
(***************************************************************************)
\* the indexes of the tasks built for model m
TasksOfModel(m) == {i \in Tasks : model_evaluation_infos[i].model = m}

RECURSIVE SumOfMatches(_)
SumOfMatches(k) ==
    IF k = 0 THEN 0 ELSE SumOfMatches(k - 1) + Len(model_to_lcb_input_files[MODELS[k]])

TasksBuilt == pc \notin {"start", "aborted", "discover", "build"}

\* C6: once the task list is built, its length is the sum over MODELS of the
\* number of input files discovered for the model, each model has as many
\* tasks as matching files (none when it has no file), and every task pairs
\* a file discovered for its model with that model.
C6_TaskCount ==
    TasksBuilt =>
        /\ Len(model_evaluation_infos) = SumOfMatches(Len(MODELS))
        /\ \A m \in ModelSet :
              /\ Cardinality(TasksOfModel(m)) = Len(model_to_lcb_input_files[m])
              /\ Len(model_to_lcb_input_files[m]) = Cardinality(GlobInputFiles(m))
              /\ {model_evaluation_infos[i].lcb_input_file_path : i \in TasksOfModel(m)}
                    = GlobInputFiles(m)
        /\ \A i \in Tasks : model_evaluation_infos[i].model \in ModelSet

\* a model with two files, a model with one and the others with none
C6_Witness ==
    /\ TasksBuilt
    /\ Len(model_to_lcb_input_files["DeepSeek-R1"]) = 2
    /\ Len(model_to_lcb_input_files["qwen-2.5-coder"]) = 1
    /\ Len(model_to_lcb_input_files["codellama-70b"]) = 0
    /\ Len(model_evaluation_infos) = 3

(***************************************************************************)
(* C7                                                                      *)
(***************************************************************************)
RECURSIVE TotalInvocations(_)
TotalInvocations(k) == IF k = 0 THEN 0 ELSE TotalInvocations(k - 1) + invocations[k]

\* C7: no task is ever invoked twice, the k-th future is the one of the k-th
\* task, and when main returns there is one future and one invocation per
\* task built, and the check has inspected each task once.
C7_ExactlyOnce ==
    /\ \A k \in Futures : invocations[k] <= 1
    /\ Len(future_to_lcb_input) <= Len(model_evaluation_infos)
    /\ \A k \in Futures :
          future_to_lcb_input[k] = model_evaluation_infos[k].lcb_input_file_path
    /\ checked <= Len(model_evaluation_infos)
    /\ pc = "done" =>
          /\ Len(future_to_lcb_input) = Len(model_evaluation_infos)
          /\ \A k \in Tasks : invocations[k] = 1
          /\ TotalInvocations(Len(invocations)) = Len(model_evaluation_infos)
          /\ checked = Len(model_evaluation_infos)

\* one model with 2 input files and the others with none: 2 tasks, 2
\* invocations and 2 checks, one of the two runs failing
C7_Witness ==
    /\ pc = "done"
    /\ Len(model_to_lcb_input_files["DeepSeek-R1"]) = 2
    /\ \A m \in ModelSet \ {"DeepSeek-R1"} : model_to_lcb_input_files[m] = <<>>
    /\ Len(model_evaluation_infos) = 2
    /\ TotalInvocations(Len(invocations)) = 2
    /\ checked = 2
    /\ \E k \in Tasks : Failed(k)

(***************************************************************************)
(* C8                                                                      *)
(***************************************************************************)
RunComplete ==
    /\ pc = "done"
    /\ \A k \in Tasks : HasOutcome(k)
    /\ checked = Len(model_evaluation_infos)

\* C8: under fair scheduling of the main thread and the workers, with every
\* launched evaluator eventually exiting, a run on a present data root
\* eventually has an outcome for every task, has checked every task, and
\* has returned.
C8_RunsToCompletion == dataDir ~> RunComplete

\* a completed run of three or more tasks, more than a pool of two workers
C8_Witness ==
    /\ RunComplete
    /\ Len(model_evaluation_infos) >= 3

(***************************************************************************)
(* C9                                                                      *)
(***************************************************************************)
RECURSIVE Count(_, _)
Count(seq, x) ==
    IF seq = <<>> THEN 0
    ELSE (IF Head(seq) = x THEN 1 ELSE 0) + Count(Tail(seq), x)

Exceptions == {"CalledProcessError", "OSError", "UnicodeDecodeError"}

FinishedReports(k) == Count(out, FinishedLine(model_evaluation_infos[k].lcb_input_file_path))

RECURSIVE CountIn(_, _)
CountIn(seq, S) ==
    IF seq = <<>> THEN 0
    ELSE (IF Head(seq) \in S THEN 1 ELSE 0) + CountIn(Tail(seq), S)

RaisedReports(k) ==
    CountIn(out, {RaisedLine(model_evaluation_infos[k].lcb_input_file_path, e) : e \in Exceptions})

\* C9 as stated: when the completeness check starts, every task has exactly
\* one outcome report, which is the "Finished running" line if and only if
\* its evaluator exited with status zero, and the "raised" line otherwise.
C9_OneReportPerOutcome ==
    pc \in {"check", "done"} =>
        \A k \in Tasks :
            /\ FinishedReports(k) + RaisedReports(k) = 1
            /\ FinishedReports(k) = 1 <=> returncode[k] = 0

(***************************************************************************)
(* C10                                                                     *)
(***************************************************************************)
\* C10: on a present data root main is never ended by an exception, and
\* when it has returned every failed run and every expected output found
\* missing has become a printed line.
C10_OnlyDiagnostics ==
    dataDir =>
        /\ pc # "aborted"
        /\ pc = "done" =>
              \A k \in Tasks :
                  /\ Failed(k) => RaisedReports(k) = 1
                  /\ ~is_file(model_evaluation_infos[k].expected_lcb_output_file_path)
                        => Count(out, MissingLine(
                               model_evaluation_infos[k].expected_lcb_output_file_path)) >= 1

\* main has returned from a run with a failed task whose output is missing,
\* a failed task whose output exists and a successful task whose output is
\* missing
C10_Witness ==
    /\ pc = "done"
    /\ \E k \in Tasks :
          Failed(k) /\ ~is_file(model_evaluation_infos[k].expected_lcb_output_file_path)
    /\ \E k \in Tasks :
          Failed(k) /\ is_file(model_evaluation_infos[k].expected_lcb_output_file_path)
    /\ \E k \in Tasks :
          Succeeded(k) /\ ~is_file(model_evaluation_infos[k].expected_lcb_output_file_path)

(***************************************************************************)
(* C11                                                                     *)
(***************************************************************************)
Pending == {k \in Futures : future_state[k] = "PENDING"}

InQueue == {work_queue[i] : i \in 1..Len(work_queue)}

\* C11: at most MaxWorkers evaluators run at the same time; a submitted task
\* that no worker has taken is pending in the executor's queue, and a task
\* leaves the pending state only in a step that starts with a free worker.
C11_BoundedPool ==
    /\ [](Cardinality(Running) <= MaxWorkers)
    /\ [](Pending = InQueue)
    /\ [][\A k \in Futures :
             (future_state[k] = "PENDING" /\ future_state'[k] # "PENDING")
                => Cardinality(Running) < MaxWorkers]_vars

\* every worker runs an evaluator while a further task waits in the queue
C11_Witness ==
    /\ Cardinality(Running) = MaxWorkers
    /\ work_queue # <<>>
    /\ \A i \in 1..Len(work_queue) : future_state[work_queue[i]] = "PENDING"

(***************************************************************************)
(* C12                                                                     *)
(***************************************************************************)
\* position of model m in MODELS
ModelIndex(m) == CHOOSE i \in 1..Len(MODELS) : MODELS[i] = m

\* position of path f in the list discovered for model m
ListIndex(m, f) ==
    CHOOSE j \in 1..Len(model_to_lcb_input_files[m]) : model_to_lcb_input_files[m][j] = f

\* task i comes before task j in model-list order, then listing order
InTaskListOrder(i, j) ==
    LET a == model_evaluation_infos[i]
        b == model_evaluation_infos[j]
    IN  \/ ModelIndex(a.model) < ModelIndex(b.model)
        \/ /\ a.model = b.model
           /\ ListIndex(a.model, a.lcb_input_file_path)
                 < ListIndex(b.model, b.lcb_input_file_path)

\* C12: the task list is in model-list order then listing order, the k-th
\* submission is the k-th task, the executor's queue keeps that order, and
\* main observes an outcome only when every task has been submitted and
\* only of a future that has finished, whatever its place in the list.
C12_SubmissionOrder ==
    /\ \A i, j \in Tasks : i < j => InTaskListOrder(i, j)
    /\ Len(future_to_lcb_input) <= Len(model_evaluation_infos)
    /\ \A k \in Futures :
          future_to_lcb_input[k] = model_evaluation_infos[k].lcb_input_file_path
    /\ \A i, j \in 1..Len(work_queue) : i < j => work_queue[i] < work_queue[j]
    /\ yielded # {} => Len(future_to_lcb_input) = Len(model_evaluation_infos)
    /\ \A k \in yielded : HasOutcome(k)

\* main has observed the outcome of the last of three tasks and of no
\* other, while the first task submitted is still running
C12_Witness ==
    /\ Len(model_evaluation_infos) = 3
    /\ yielded = {3}
    /\ future_state[1] = "RUNNING"

(***************************************************************************)
(* C13                                                                     *)
(***************************************************************************)
\* C13: every task's expected output path is _get_expected_lcb_output_file
\* of its input path, its model is the one its input path was discovered
\* for, and once the task list is built no step changes it.
C13_TasksImmutable ==
    /\ [](\A i \in Tasks :
             LET info == model_evaluation_infos[i]
             IN  /\ info.expected_lcb_output_file_path
                       = Split(info.lcb_input_file_path, ".json")[1]
                             \o "_codegeneration_output_eval_all.json"
                 /\ info.lcb_input_file_path \in GlobInputFiles(info.model))
    /\ [][TasksBuilt => model_evaluation_infos' = model_evaluation_infos]_vars

\* main has returned from a run of several tasks in which evaluators ran,
\* one failed, and the check printed a diagnostic
C13_Witness ==
    /\ pc = "done"
    /\ Len(model_evaluation_infos) >= 2
    /\ \E k \in Tasks : Failed(k)
    /\ \E k \in Tasks : ~is_file(model_evaluation_infos[k].expected_lcb_output_file_path)

(***************************************************************************)
(* C14                                                                     *)
(***************************************************************************)
\* the positions of s at which ".json" starts
DotJsonStarts(s) == {i \in 1..(Len(s) - 4) : SubSeq(s, i, i + 4) = ".json"}

\* C14: the derived path is the input path up to its first ".json" (the
\* whole input path when it has none) followed by
\* "_codegeneration_output_eval_all.json"; for an input path X.json with no
\* ".json" in X it is X followed by that suffix.
C14_DerivedPathShape ==
    pc = "derived" =>
        LET s == model_evaluation_infos[1].lcb_input_file_path
            r == model_evaluation_infos[1].expected_lcb_output_file_path
            X == SubSeq(s, 1, Len(s) - 5)
        IN  /\ DotJsonStarts(s) = {} => r = s \o "_codegeneration_output_eval_all.json"
            /\ \A i \in DotJsonStarts(s) :
                  (\A j \in DotJsonStarts(s) : i <= j)
                     => r = SubSeq(s, 1, i - 1) \o "_codegeneration_output_eval_all.json"
            /\ (EndsWith(s, ".json") /\ DotJsonStarts(X) = {})
                  => r = X \o "_codegeneration_output_eval_all.json"

\* the path derived from an input path in which ".json" occurs twice
C14_Witness ==
    /\ Derived("data/DeepSeek-R1/post-processed/lcb-formatted.json.lcb-formatted.json")
    /\ Cardinality(DotJsonStarts(model_evaluation_infos[1].lcb_input_file_path)) = 2

(***************************************************************************)
(* C15                                                                     *)
(***************************************************************************)
IsDiagnostic(line) == StartsWith(line, "Missing LiveCodeBench output file: ")
                         \/ StartsWith(line, "Re-run '")

\* the diagnostics of the first n tasks of a task list on a file system,
\* as a function of the task list and of the files alone
RECURSIVE DiagnosticsOf(_, _, _)
DiagnosticsOf(infos, F, n) ==
    IF n = 0 THEN <<>>
    ELSE DiagnosticsOf(infos, F, n - 1) \o
         (IF infos[n].expected_lcb_output_file_path \in F
          THEN <<>>
          ELSE << "Missing LiveCodeBench output file: "
                      \o infos[n].expected_lcb_output_file_path,
                  "Re-run 'python -m lcb_runner.runner.custom_evaluator --custom_output_file "
                      \o infos[n].lcb_input_file_path \o "'" >>)

\* C15: the diagnostics printed by the completeness check are a function of
\* the task list and of the files that exist while it runs; exit statuses
\* and exceptions do not enter, so a failed task whose file exists is not
\* reported and a task that exited with zero whose file is absent is.
C15_DiagnosticsFromFilesOnly ==
    /\ SelectSeq(out, IsDiagnostic) = DiagnosticsOf(model_evaluation_infos, files, checked)
    /\ pc = "done" =>
          \A k \in Tasks :
              LET info == model_evaluation_infos[k]
              IN  Count(out, MissingLine(info.expected_lcb_output_file_path)) >= 1
                     <=> info.expected_lcb_output_file_path \notin files

\* main has returned; a task whose run raised has its file and is not
\* reported, a task whose evaluator exited with zero has none and is
C15_Witness ==
    /\ pc = "done"
    /\ \E k \in Tasks :
          /\ Failed(k)
          /\ is_file(model_evaluation_infos[k].expected_lcb_output_file_path)
          /\ Count(out, MissingLine(
                 model_evaluation_infos[k].expected_lcb_output_file_path)) = 0
    /\ \E k \in Tasks :
          /\ Succeeded(k) /\ returncode[k] = 0
          /\ ~is_file(model_evaluation_infos[k].expected_lcb_output_file_path)
          /\ Count(out, MissingLine(
                 model_evaluation_infos[k].expected_lcb_output_file_path)) = 1

(***************************************************************************)
(* C16                                                                     *)
(***************************************************************************)
IsRaisedLine(line) == StartsWith(line, "LiveCodeBench run for ")

\* the report main prints for task k when its run raised
RaisedReportOf(k) ==
    "LiveCodeBench run for " \o model_evaluation_infos[k].lcb_input_file_path
        \o " raised: " \o ExceptionText(future_exception[k], model_evaluation_infos[k].lcb_input_file_path)

\* C16: every "raised" line of stdout is the report of a task that main has
\* observed and whose subprocess.run call raised, with that task's own
\* input path and exception; such a task has exactly one report and a task
\* whose call did not raise has none.
C16_FailureNamesFailedTask ==
    /\ \A n \in 1..Len(out) :
          IsRaisedLine(out[n]) =>
              \E k \in yielded : Failed(k) /\ out[n] = RaisedReportOf(k)
    /\ \A k \in Tasks :
          RaisedReports(k) = IF k \in yielded /\ Failed(k) THEN 1 ELSE 0

\* the third of three tasks failed and was observed first: the only raised
\* line names its input path, and the two others are not yet observed
C16_Witness ==
    /\ Len(model_evaluation_infos) = 3
    /\ yielded = {3}
    /\ Failed(3)
    /\ SelectSeq(out, IsRaisedLine) = <<RaisedReportOf(3)>>

(***************************************************************************)
(* C17                                                                     *)
(***************************************************************************)
\* C17 as stated: two different tasks never have the same expected output
\* path.
C17_DistinctExpectedOutputs ==
    \A i, j \in Tasks :
        i # j => model_evaluation_infos[i].expected_lcb_output_file_path
                    # model_evaluation_infos[j].expected_lcb_output_file_path

(***************************************************************************)
(* C18                                                                     *)
(***************************************************************************)
\* C18: a task whose evaluator wrote the task's expected output file never
\* gets a missing-output line, and no file is written once the completeness
\* check has started: the check sees the files as the evaluators left them.
C18_WrittenOutputNotReported ==
    /\ [](\A k \in Futures :
             wrote[k] =>
                 /\ is_file(model_evaluation_infos[k].expected_lcb_output_file_path)
                 /\ Count(out, MissingLine(
                        model_evaluation_infos[k].expected_lcb_output_file_path)) = 0)
    /\ [][(files' # files \/ wrote' # wrote)
             => (checked = 0 /\ pc \notin {"check", "done"})]_vars

\* main has returned; the evaluator of a task wrote its file and then
\* failed, another task's evaluator wrote nothing and that task is reported
C18_Witness ==
    /\ pc = "done"
    /\ \E k \in Tasks : wrote[k] /\ Failed(k) /\ returncode[k] = 1
    /\ \E k \in Tasks :
          /\ ~wrote[k]
          /\ Count(out, MissingLine(
                 model_evaluation_infos[k].expected_lcb_output_file_path)) = 1

====
